---- MODULE Spec2Model ----
(***************************************************************************)
(* A model of zfsDiffReport.py.                                            *)
(*                                                                         *)
(* Python strings are modelled as sequences of one-character strings, so   *)
(* that substring containment, str.split, str.replace and the whitespace   *)
(* normalisation are computed as Python computes them.                     *)
(***************************************************************************)
EXTENDS Integers, Sequences, FiniteSets, TLC

VARIABLES
    pc,               \* position of the modelled call / of main
    zfssnapshots,     \* getSnapshots: lines of `zfs list`, oldest first
    snapshotkeys,     \* getSnapshots / args.snapshotkeys
    snapshots,        \* getSnapshots: (enoughSnapshots, snapshot1, snapshot2)
    difflines,        \* input list of getFilteredDifflines / getReducedDifflines
    excludes,         \* args.exclude (<<>> models None and the empty list)
    stripVolumePath,  \* getReducedDifflines argument
    fs,               \* what each relative path is in (snapshot1, snapshot2)
    result,           \* what the modelled function returned
    volumes,          \* main: list(set(args.volume))
    args,             \* main: args.filename, args.reduce
    zfsList,          \* per volume, the lines `zfs list` prints
    zfsDiff,          \* per volume, the lines `zfs diff` prints
    current,          \* main: position in volumes of the loop's volume
    collecteddifflines,
    errors,
    reports,          \* main: the reports written or printed so far
    summary           \* main: the final log message

mainVars == <<volumes, args, zfsList, zfsDiff, current, collecteddifflines,
              errors, reports, summary>>

vars == <<pc, zfssnapshots, snapshotkeys, snapshots, difflines, excludes,
          stripVolumePath, fs, result, volumes, args, zfsList, zfsDiff, current,
          collecteddifflines, errors, reports, summary>>

----------------------------------------------------------------------------
(* Bounds of the model.                                                    *)

MaxSnapshots == 3
MaxFilterLines == 3
MaxReduceLines == 4
MaxVolumes == 2

----------------------------------------------------------------------------
(* Python str operations on sequences of characters.                       *)

Range(s) == {s[i] : i \in 1..Len(s)}

\* s.startswith(p)
StartsWith(s, p) == Len(p) =< Len(s) /\ SubSeq(s, 1, Len(p)) = p

\* s.find(p) + 1: position of the first occurrence of p in s, 0 when absent
Find(s, p) ==
    LET hits == {i \in 1..(Len(s) - Len(p) + 1) : SubSeq(s, i, i + Len(p) - 1) = p}
    IN  IF hits = {} THEN 0 ELSE CHOOSE i \in hits : \A j \in hits : i =< j

\* s.rfind(p) + 1: position of the last occurrence of p in s, 0 when absent
RFind(s, p) ==
    LET hits == {i \in 1..(Len(s) - Len(p) + 1) : SubSeq(s, i, i + Len(p) - 1) = p}
    IN  IF hits = {} THEN 0 ELSE CHOOSE i \in hits : \A j \in hits : j =< i

\* p in s
Contains(s, p) == Find(s, p) # 0

\* s.split(sep), sep not empty
RECURSIVE Split(_, _)
Split(s, sep) ==
    LET k == Find(s, sep)
    IN  IF k = 0 THEN <<s>>
        ELSE <<SubSeq(s, 1, k - 1)>> \o Split(SubSeq(s, k + Len(sep), Len(s)), sep)

\* s.rsplit(sep, 1), sep not empty
RSplit1(s, sep) ==
    LET k == RFind(s, sep)
    IN  IF k = 0 THEN <<s>>
        ELSE <<SubSeq(s, 1, k - 1), SubSeq(s, k + Len(sep), Len(s))>>

\* s.replace(old, new, 1), old not empty
Replace1(s, old, new) ==
    LET k == Find(s, old)
    IN  IF k = 0 THEN s
        ELSE SubSeq(s, 1, k - 1) \o new \o SubSeq(s, k + Len(old), Len(s))

\* s.replace(old, new), old a single character
RECURSIVE ReplaceChar(_, _, _)
ReplaceChar(s, old, new) ==
    IF s = <<>> THEN <<>>
    ELSE (IF Head(s) = old THEN <<new>> ELSE <<Head(s)>>) \o ReplaceChar(Tail(s), old, new)

Whitespace == {" ", "\t"}

\* s.split(): the maximal runs of non-whitespace characters
RECURSIVE SplitWs(_)
SplitWs(s) ==
    IF s = <<>> THEN <<>>
    ELSE IF Head(s) \in Whitespace THEN SplitWs(Tail(s))
    ELSE LET stops == {i \in 1..Len(s) : s[i] \in Whitespace}
             e == IF stops = {} THEN Len(s) + 1
                  ELSE CHOOSE i \in stops : \A j \in stops : i =< j
         IN  <<SubSeq(s, 1, e - 1)>> \o SplitWs(SubSeq(s, e, Len(s)))

\* " ".join(parts)
RECURSIVE JoinSpace(_)
JoinSpace(parts) ==
    IF parts = <<>> THEN <<>>
    ELSE IF Len(parts) = 1 THEN parts[1]
    ELSE parts[1] \o <<" ">> \o JoinSpace(Tail(parts))

\* Code point order of the characters that occur in the model's paths.
Alphabet == <<"\t", " ", "+", "-", ".", "/", "0", "1", "2", ">", "@",
              "M", "R", "_", "a", "b", "h", "n", "o", "p", "s", "t", "v",
              "w", "x", "z">>
Ord(c) == CHOOSE i \in 1..Len(Alphabet) : Alphabet[i] = c

\* a < b for str
RECURSIVE StrLess(_, _)
StrLess(a, b) ==
    IF b = <<>> THEN FALSE
    ELSE IF a = <<>> THEN TRUE
    ELSE IF Head(a) = Head(b) THEN StrLess(Tail(a), Tail(b))
    ELSE Ord(Head(a)) < Ord(Head(b))

\* list.index(x) + 1
Index(list, x) == CHOOSE i \in 1..Len(list) : list[i] = x /\ \A j \in 1..(i - 1) : list[j] # x

\* list(filter(P, list)) is SelectSeq

----------------------------------------------------------------------------
(* getSnapshots                                                            *)

\* list(filter(lambda x: snapshotkeys[0] in x, zfssnapshots))
FilterByKey(list, key) == SelectSeq(list, LAMBDA x : Contains(x, key))

\* filter(lambda x: snapshotkeys[1] in x and not tmpZfsSnapshots[-1] in x, zfssnapshots)
\*   + [tmpZfsSnapshots[-1]]
SecondKeyFilter(list, key, last) ==
    SelectSeq(list, LAMBDA x : Contains(x, key) /\ ~Contains(x, last)) \o <<last>>

tmpZfsSnapshots(list, keys) ==
    LET t1 == IF Len(keys) > 0 THEN FilterByKey(list, keys[1]) ELSE list
    IN  IF Len(keys) > 1 /\ Len(t1) > 0
        THEN SecondKeyFilter(list, keys[2], t1[Len(t1)])
        ELSE t1

\* a slip of the index: the first and the last instead of the last two
FirstAndLast(tmp) ==
    IF Len(tmp) > 1
    THEN [enoughSnapshots |-> TRUE, snapshot1 |-> tmp[1], snapshot2 |-> tmp[Len(tmp)]]
    ELSE [enoughSnapshots |-> FALSE, snapshot1 |-> <<>>, snapshot2 |-> <<>>]

\* enoughSnapshots, tmpZfsSnapshots[-2], tmpZfsSnapshots[-1]
LastTwo(tmp) ==
    IF Len(tmp) > 1
    THEN [enoughSnapshots |-> TRUE, snapshot1 |-> tmp[Len(tmp) - 1], snapshot2 |-> tmp[Len(tmp)]]
    ELSE [enoughSnapshots |-> FALSE, snapshot1 |-> <<>>, snapshot2 |-> <<>>]

\* the pair left in the order of the keywords
SortChronologicallyNoSwap(list, r) == r

\* "sort snapshots chronologically"
SortChronologically(list, r) ==
    IF r.enoughSnapshots /\ Index(list, r.snapshot1) > Index(list, r.snapshot2)
    THEN [r EXCEPT !.snapshot1 = r.snapshot2, !.snapshot2 = r.snapshot1]
    ELSE r

getSnapshots(list, keys) ==
    SortChronologically(list, LastTwo(tmpZfsSnapshots(list, keys)))

----------------------------------------------------------------------------
(* getSortedDiffLines, getFilteredDifflines                                *)

\* x.split()[1] is defined
HasKey(line) == Len(SplitWs(line)) >= 2
SortKey(line) == SplitWs(line)[2]

\* insertion of x behind every element whose key is not greater (a stable sort)
RECURSIVE InsertSorted(_, _)
InsertSorted(sorted, x) ==
    IF sorted = <<>> THEN <<x>>
    ELSE IF StrLess(SortKey(x), SortKey(Head(sorted))) THEN <<x>> \o sorted
    ELSE <<Head(sorted)>> \o InsertSorted(Tail(sorted), x)

RECURSIVE StableSort(_)
StableSort(lines) ==
    IF lines = <<>> THEN <<>>
    ELSE InsertSorted(StableSort(SubSeq(lines, 1, Len(lines) - 1)), lines[Len(lines)])

\* stdout is the list of lines of `zfs diff`; the model's lines hold no
\* backslash, so decode_octal finds no escape to replace.
\* sorted(difflines, key=lambda x: x.split()[1]) raises IndexError on a line
\* with fewer than two fields.
getSortedDiffLines(stdout) ==
    IF \E i \in 1..Len(stdout) : ~HasKey(stdout[i])
    THEN [raised |-> TRUE, lines |-> <<>>]
    ELSE [raised |-> FALSE, lines |-> StableSort(stdout)]

\* all(...) in the place of any(...)
ExcludedIfAll(line, excl) == \A i \in 1..Len(excl) : Contains(line, excl[i])

\* any(f in x for f in excludes)
Excluded(line, excl) == \E i \in 1..Len(excl) : Contains(line, excl[i])

getFilteredDifflines(lines, excl) ==
    IF Len(excl) > 0
    THEN SelectSeq(lines, LAMBDA x : ~Excluded(x, excl))
    ELSE lines

----------------------------------------------------------------------------
(* getHash, getReducedDifflines                                            *)

zfsstructure == <<"/", ".", "z", "f", "s", "/", "s", "n", "a", "p", "s", "h", "o", "t", "/">>

\* pathlib drops trailing slashes
RECURSIVE PathOf(_)
PathOf(file) ==
    IF Len(file) > 1 /\ file[Len(file)] = "/" THEN PathOf(SubSeq(file, 1, Len(file) - 1))
    ELSE file

\* hashlib.sha1 of a file's content: distinct contents, distinct digests
Sha1(content) == <<"h", content>>

\* "" for a directory and for what is not a file, the digest otherwise
getHash(files, file) ==
    LET path == PathOf(file)
    IN  IF path \notin DOMAIN files THEN <<>>
        ELSE IF files[path] = "dir" THEN <<>>
        ELSE Sha1(files[path])

\* mountpoint+zfsstructure+snapshot.split("@")[1]
SnapshotDir(mountpoint, snapshot) == mountpoint \o zfsstructure \o Split(snapshot, <<"@">>)[2]

\* the tail of the loop body: strip the mountpoint, normalise whitespace
OutputLine(line, strip, mountpoint) ==
    LET l1 == IF strip THEN Replace1(line, mountpoint, <<>>) ELSE line
        l2 == IF strip THEN Replace1(l1, <<" ", "-", ">", " ">> \o mountpoint,
                                         <<" ", "-", ">", " ">>)
              ELSE l1
    IN  JoinSpace(SplitWs(l2))

IsPairAt(lines, index) ==
    /\ index + 1 =< Len(lines)
    /\ \/ StartsWith(lines[index], <<"-">>) /\ StartsWith(lines[index + 1], <<"+">>)
       \/ StartsWith(lines[index], <<"+">>) /\ StartsWith(lines[index + 1], <<"-">>)

\* line.split(mountpoint)[1]
RelativeFile(line, mountpoint) == Split(line, mountpoint)[2]
HasRelativeFile(line, mountpoint) == Len(Split(line, mountpoint)) >= 2

\* the for loop of getReducedDifflines from position index on; acc is
\* reduceddifflines. An IndexError of line.split(mountpoint)[1] ends the call.
RECURSIVE ReduceLoop(_, _, _, _, _, _, _, _)
ReduceLoop(files, lines, index, mreduced, acc, strip, mountpoint, dirs) ==
    IF index > Len(lines) THEN [raised |-> FALSE, lines |-> acc]
    ELSE LET line == lines[index]
             keep(l, ls) == ReduceLoop(files, ls, index + 1, FALSE,
                                       Append(acc, OutputLine(l, strip, mountpoint)),
                                       strip, mountpoint, dirs)
             skip(m) == ReduceLoop(files, lines, index + 1, m, acc, strip, mountpoint, dirs)
             raise == [raised |-> TRUE, lines |-> <<>>]
         IN  IF mreduced THEN skip(FALSE)
             ELSE IF StartsWith(line, <<"M">>) /\ Len(line) > 3
             THEN IF ~HasRelativeFile(line, mountpoint) THEN raise
                  ELSE LET mfile == RelativeFile(line, mountpoint)
                           mhash1 == getHash(files, dirs[1] \o mfile)
                           mhash2 == getHash(files, dirs[2] \o mfile)
                       IN  IF mhash1 = mhash2 THEN skip(FALSE)
                           ELSE keep(line \o <<" ">> \o mhash1 \o <<" ">> \o mhash2, lines)
             ELSE IF IsPairAt(lines, index)
             THEN IF ~HasRelativeFile(line, mountpoint)
                     \/ ~HasRelativeFile(lines[index + 1], mountpoint) THEN raise
                  ELSE LET mfile == RelativeFile(line, mountpoint)
                           pfile == RelativeFile(lines[index + 1], mountpoint)
                           mhash == getHash(files, dirs[1] \o mfile)
                           phash == getHash(files, dirs[1] \o pfile)
                       IN  IF mfile # pfile THEN keep(line, lines)
                           ELSE IF mhash = phash THEN skip(TRUE)
                           ELSE keep(line \o <<" ">> \o mhash,
                                     [lines EXCEPT ![index + 1] = @ \o <<" ">> \o phash])
             ELSE keep(line, lines)

getReducedDifflines(files, lines, strip, mountpoint, snapshot1, snapshot2) ==
    ReduceLoop(files, lines, 1, FALSE, <<>>, strip, mountpoint,
               <<SnapshotDir(mountpoint, snapshot1), SnapshotDir(mountpoint, snapshot2)>>)

----------------------------------------------------------------------------
(* Snapshot names and keywords the model draws from.                       *)

Snap(volume, tag) == volume \o <<"@">> \o tag

SnapshotTags == {<<"a">>, <<"z", "1">>, <<"z", "2">>, <<"z", "1", "0">>}

Keywords == {<<"z">>, <<"a">>, <<"1">>}

\* the lists of at most n distinct names of S (snapshot names are unique)
RECURSIVE DistinctSeqs(_, _)
DistinctSeqs(S, n) ==
    IF n = 0 THEN {<<>>}
    ELSE LET shorter == DistinctSeqs(S, n - 1)
         IN  shorter \cup {Append(q[1], q[2]) : q \in {p \in shorter \X S : p[2] \notin Range(p[1])}}

\* the sequences over S of length at most n
RECURSIVE SeqsUpTo(_, _)
SeqsUpTo(S, n) ==
    IF n = 0 THEN {<<>>}
    ELSE LET shorter == SeqsUpTo(S, n - 1)
         IN  shorter \cup {Append(q, x) : q \in shorter, x \in S}

SnapshotLists(volume) ==
    DistinctSeqs({Snap(volume, t) : t \in SnapshotTags}, MaxSnapshots)

----------------------------------------------------------------------------
(* SpecSnapshots: getSnapshots applied to every list and keyword choice.   *)

InitSnapshots ==
    /\ pc = "getSnapshots"
    /\ zfssnapshots \in SnapshotLists(<<"v">>)
    /\ snapshotkeys \in SeqsUpTo(Keywords, 2)
    /\ snapshots = [enoughSnapshots |-> FALSE, snapshot1 |-> <<>>, snapshot2 |-> <<>>]
    /\ difflines = <<>>
    /\ excludes = <<>>
    /\ stripVolumePath = FALSE
    /\ fs = <<>>
    /\ result = [raised |-> FALSE, lines |-> <<>>]
    /\ volumes = <<>>
    /\ args = [filename |-> <<>>, reduce |-> FALSE]
    /\ zfsList = <<>>
    /\ zfsDiff = <<>>
    /\ current = 0
    /\ collecteddifflines = <<>>
    /\ errors = 0
    /\ reports = <<>>
    /\ summary = <<>>

CallGetSnapshots ==
    /\ pc = "getSnapshots"
    /\ snapshots' = getSnapshots(zfssnapshots, snapshotkeys)
    /\ pc' = "returned"
    /\ UNCHANGED <<zfssnapshots, snapshotkeys, difflines, excludes,
                   stripVolumePath, fs, result>>
    /\ UNCHANGED mainVars

NextSnapshots == CallGetSnapshots

SpecSnapshots == InitSnapshots /\ [][NextSnapshots]_vars

\* positions and matches, computed independently of getSnapshots
Position(list, x) == CHOOSE i \in 1..Len(list) : list[i] = x
Members(list) == {list[i] : i \in 1..Len(list)}
Matching(list, key) == {i \in 1..Len(list) : Contains(list[i], key)}
Latest(P) == CHOOSE i \in P : \A j \in P : j =< i

Returned == pc = "returned"

\* C4: whenever getSnapshots succeeds, snapshot1 and snapshot2 are members of
\* the input list and snapshot1's position is not after snapshot2's, whichever
\* keyword matched which snapshot.
C4_PairOrdered ==
    (Returned /\ snapshots.enoughSnapshots) =>
        /\ snapshots.snapshot1 \in Members(zfssnapshots)
        /\ snapshots.snapshot2 \in Members(zfssnapshots)
        /\ Position(zfssnapshots, snapshots.snapshot1)
              =< Position(zfssnapshots, snapshots.snapshot2)

\* two keywords, and the snapshot matching the first keyword is the older one
C4_Witness ==
    /\ Returned /\ snapshots.enoughSnapshots
    /\ Len(snapshotkeys) = 2
    /\ Matching(zfssnapshots, snapshotkeys[1]) # {}
    /\ snapshots.snapshot1 = zfssnapshots[Latest(Matching(zfssnapshots, snapshotkeys[1]))]

\* C5: with no keyword the last two snapshots of the list are returned, with
\* one keyword the last two snapshots whose name contains the keyword; the
\* call fails when there are fewer than two of them.
C5_LastTwoQualifying ==
    (Returned /\ Len(snapshotkeys) =< 1) =>
        LET Q == IF Len(snapshotkeys) = 0 THEN 1..Len(zfssnapshots)
                 ELSE Matching(zfssnapshots, snapshotkeys[1])
        IN  /\ snapshots.enoughSnapshots <=> Cardinality(Q) >= 2
            /\ snapshots.enoughSnapshots =>
                  /\ snapshots.snapshot2 = zfssnapshots[Latest(Q)]
                  /\ snapshots.snapshot1 = zfssnapshots[Latest(Q \ {Latest(Q)})]

\* the spec's scenario: ["v@a", "v@z1", "v@z2"] with keyword "z"
C5_Witness ==
    /\ Returned
    /\ zfssnapshots = <<Snap(<<"v">>, <<"a">>), Snap(<<"v">>, <<"z", "1">>),
                        Snap(<<"v">>, <<"z", "2">>)>>
    /\ snapshotkeys = <<(<<"z">>)>>
    /\ snapshots = [enoughSnapshots |-> TRUE,
                    snapshot1 |-> Snap(<<"v">>, <<"z", "1">>),
                    snapshot2 |-> Snap(<<"v">>, <<"z", "2">>)]

\* C9: with two keywords, L1 (the latest snapshot containing the first
\* keyword) is paired with the latest snapshot, other than L1 itself, that
\* contains the second keyword; every such snapshot is eligible.
C9_SecondSlotAnyOtherSnapshot ==
    (Returned /\ Len(snapshotkeys) = 2 /\ Matching(zfssnapshots, snapshotkeys[1]) # {}) =>
        LET l1 == Latest(Matching(zfssnapshots, snapshotkeys[1]))
            eligible == Matching(zfssnapshots, snapshotkeys[2]) \ {l1}
        IN  /\ snapshots.enoughSnapshots <=> eligible # {}
            /\ snapshots.enoughSnapshots =>
                  {snapshots.snapshot1, snapshots.snapshot2}
                     = {zfssnapshots[l1], zfssnapshots[Latest(eligible)]}

----------------------------------------------------------------------------
(* Diff lines, exclusions and snapshot contents the model draws from.      *)

Mountpoint(volume) == <<"/">> \o volume

\* a line of `zfs diff`: the kind, a tab, the path
DiffLine(kind, mountpoint, rel) == <<kind, "\t">> \o mountpoint \o rel

RenameLine(mountpoint, from, to) ==
    <<"R", "\t">> \o mountpoint \o from \o <<" ", "-", ">", " ">> \o mountpoint \o to

\* "/va" repeats the text of the mountpoint "/v" (as /data/database.db does)
RelPaths == {<<"/", "a">>, <<"/", "b">>, <<"/", "v", "a">>}

DiffLinesOf(volume) ==
    {DiffLine(k, Mountpoint(volume), <<"/", "a">>) : k \in {"M", "+", "-"}}
      \cup {DiffLine(k, Mountpoint(volume), <<"/", "b">>) : k \in {"+", "-"}}
      \cup {DiffLine("M", Mountpoint(volume), <<"/", "v", "a">>),
            RenameLine(Mountpoint(volume), <<"/", "a">>, <<"/", "b">>)}

Exclusions == {<<"/", "a">>, <<"v", "a">>, <<"+">>}

\* what a relative path is in (snapshot1, snapshot2): "none" (missing),
\* "dir", or a file with content "1" or "2"
Layouts ==
    {l \in [RelPaths -> {<<"1", "1">>, <<"1", "2">>, <<"dir", "dir">>, <<"none", "none">>}] :
        /\ l[<<"/", "b">>] \in {<<"1", "1">>, <<"1", "2">>}
        /\ l[<<"/", "v", "a">>] \in {<<"1", "2">>, <<"dir", "dir">>}}

\* the file system below the two snapshot directories
FileSystem(layout, dirs) ==
    LET entries == {<<dirs[k], "dir">> : k \in 1..2}
                     \cup {e \in {<<dirs[k] \o rel, layout[rel][k]>> : rel \in RelPaths, k \in 1..2} :
                              e[2] # "none"}
    IN  [p \in {e[1] : e \in entries} |-> (CHOOSE e \in entries : e[1] = p)[2]]

NoSnapshots == [enoughSnapshots |-> FALSE, snapshot1 |-> <<>>, snapshot2 |-> <<>>]
NoResult == [raised |-> FALSE, lines |-> <<>>]

\* main is not running
MainIdle ==
    /\ volumes = <<>>
    /\ args = [filename |-> <<>>, reduce |-> FALSE]
    /\ zfsList = <<>>
    /\ zfsDiff = <<>>
    /\ current = 0
    /\ collecteddifflines = <<>>
    /\ errors = 0
    /\ reports = <<>>
    /\ summary = <<>>

----------------------------------------------------------------------------
(* SpecFilter: getFilteredDifflines applied to every list and exclusion.   *)

InitFilter ==
    /\ pc = "getFilteredDifflines"
    /\ difflines \in SeqsUpTo(DiffLinesOf(<<"v">>), MaxFilterLines)
    /\ excludes \in SeqsUpTo(Exclusions, 2)
    /\ zfssnapshots = <<>>
    /\ snapshotkeys = <<>>
    /\ snapshots = NoSnapshots
    /\ stripVolumePath = FALSE
    /\ fs = <<>>
    /\ result = NoResult
    /\ MainIdle

CallGetFilteredDifflines ==
    /\ pc = "getFilteredDifflines"
    /\ result' = [raised |-> FALSE, lines |-> getFilteredDifflines(difflines, excludes)]
    /\ pc' = "returned"
    /\ UNCHANGED <<zfssnapshots, snapshotkeys, snapshots, difflines, excludes,
                   stripVolumePath, fs>>
    /\ UNCHANGED mainVars

NextFilter == CallGetFilteredDifflines

SpecFilter == InitFilter /\ [][NextFilter]_vars

\* the positions of the lines that contain none of the exclusion substrings
Clean == {i \in 1..Len(difflines) :
             \A f \in Range(excludes) : \A k \in 1..(Len(difflines[i]) - Len(f) + 1) :
                 \E n \in 1..Len(f) : difflines[i][k + n - 1] # f[n]}

\* C7: the output of getFilteredDifflines is the input's lines that contain
\* none of the exclusion substrings, in the input's order; it is never
\* longer than the input.
C7_FilterIsCleanSubsequence ==
    Returned =>
        /\ Len(result.lines) =< Len(difflines)
        /\ Len(result.lines) = Cardinality(Clean)
        /\ \A i \in Clean :
              result.lines[Cardinality({j \in Clean : j =< i})] = difflines[i]

\* a line between two retained lines is removed, by the second of two exclusions
C7_Witness ==
    /\ Returned
    /\ Len(excludes) = 2
    /\ Len(difflines) = 3
    /\ Clean = {1, 3}
    /\ ~Contains(difflines[2], excludes[1])
    /\ difflines[1] # difflines[3]

----------------------------------------------------------------------------
(* SpecReduce: getReducedDifflines applied to every sorted list.           *)

Snapshot1 == Snap(<<"v">>, <<"s", "1">>)
Snapshot2 == Snap(<<"v">>, <<"s", "2">>)
SnapshotDirs(volume) == <<SnapshotDir(Mountpoint(volume), Snap(volume, <<"s", "1">>)),
                          SnapshotDir(Mountpoint(volume), Snap(volume, <<"s", "2">>))>>

InitReduceOver(lines, layouts) ==
    /\ pc = "getReducedDifflines"
    /\ \E stdout \in SeqsUpTo(lines, MaxReduceLines) :
          difflines = getSortedDiffLines(stdout).lines
    /\ fs \in layouts
    /\ stripVolumePath \in BOOLEAN
    /\ excludes = <<>>
    /\ zfssnapshots = <<>>
    /\ snapshotkeys = <<>>
    /\ snapshots = [enoughSnapshots |-> TRUE, snapshot1 |-> Snapshot1, snapshot2 |-> Snapshot2]
    /\ result = NoResult
    /\ MainIdle

InitReduce == InitReduceOver(DiffLinesOf(<<"v">>), Layouts)

CallGetReducedDifflines ==
    /\ pc = "getReducedDifflines"
    /\ result' = getReducedDifflines(FileSystem(fs, SnapshotDirs(<<"v">>)), difflines, stripVolumePath, Mountpoint(<<"v">>),
                                     snapshots.snapshot1, snapshots.snapshot2)
    /\ pc' = "returned"
    /\ UNCHANGED <<zfssnapshots, snapshotkeys, snapshots, difflines, excludes,
                   stripVolumePath, fs>>
    /\ UNCHANGED mainVars

NextReduce == CallGetReducedDifflines

SpecReduce == InitReduce /\ [][NextReduce]_vars

\* SpecReducePairs: the Created and Deleted records alone, every path a file
\* in both snapshots
CreatedDeleted == {l \in DiffLinesOf(<<"v">>) : l[1] \in {"+", "-"}}
FileLayouts == {l \in Layouts : \A rel \in RelPaths : l[rel] \in {<<"1", "1">>, <<"1", "2">>}}

InitReducePairs == InitReduceOver(CreatedDeleted, FileLayouts)

SpecReducePairs == InitReducePairs /\ [][NextReduce]_vars

\* what the records say, read from the record itself: its kind, its path
\* below the mountpoint, and what that path is in each snapshot
Kind(line) == line[1]
RecordPath(line) == SubSeq(SortKey(line), Len(Mountpoint(<<"v">>)) + 1, Len(SortKey(line)))
ContentIn(k, rel) == IF rel \in DOMAIN fs THEN fs[rel][k] ELSE "none"
IsFile(c) == c \notin {"none", "dir"}
Fingerprint(c) == IF IsFile(c) THEN Sha1(c) ELSE <<>>

Written(line) == OutputLine(line, stripVolumePath, Mountpoint(<<"v">>))
InOutput(line) == \E j \in 1..Len(result.lines) : result.lines[j] = Written(line)

ModifiedAt(i) == Kind(difflines[i]) = "M"
\* records i and i+1 are a Deleted/Created pair, in either order, of one path
PairAt(i) ==
    /\ i + 1 =< Len(difflines)
    /\ {Kind(difflines[i]), Kind(difflines[i + 1])} = {"+", "-"}
    /\ RecordPath(difflines[i]) = RecordPath(difflines[i + 1])

\* C1: a Modified record whose content differs between the two snapshots is
\* retained, with the two distinct fingerprints appended to its line.
C1_ModifiedRetained ==
    Returned =>
        \A i \in 1..Len(difflines) :
            LET rel == RecordPath(difflines[i])
                c1 == ContentIn(1, rel)
                c2 == ContentIn(2, rel)
            IN  (ModifiedAt(i) /\ IsFile(c1) /\ IsFile(c2) /\ c1 # c2) =>
                    InOutput(difflines[i] \o <<" ">> \o Fingerprint(c1)
                                          \o <<" ">> \o Fingerprint(c2))

\* the case holds for a path that does not repeat the mountpoint's text
C1_Witness ==
    /\ Returned
    /\ \E i \in 1..Len(difflines) :
          /\ ModifiedAt(i)
          /\ RecordPath(difflines[i]) = <<"/", "a">>
          /\ ContentIn(1, <<"/", "a">>) = "1" /\ ContentIn(2, <<"/", "a">>) = "2"
          /\ InOutput(difflines[i] \o <<" ", "h", "1", " ", "h", "2">>)

\* C3: a record is never dropped on a comparison of "no content"
\* fingerprints: a Modified record whose path is missing or a directory in
\* both snapshots, and a Deleted/Created pair whose path is missing or a
\* directory in the older snapshot, are retained.
C3_SentinelNeverDrops ==
    Returned =>
        /\ \A i \in 1..Len(difflines) :
              (/\ ModifiedAt(i)
               /\ ~IsFile(ContentIn(1, RecordPath(difflines[i])))
               /\ ~IsFile(ContentIn(2, RecordPath(difflines[i]))))
                 => InOutput(difflines[i])
        /\ \A i \in 1..Len(difflines) :
              (PairAt(i) /\ ~IsFile(ContentIn(1, RecordPath(difflines[i]))))
                 => InOutput(difflines[i]) /\ InOutput(difflines[i + 1])
\* the pairs the single forward pass meets: a record belongs to one pair at most
RECURSIVE PairStartsFrom(_)
PairStartsFrom(i) ==
    IF i >= Len(difflines) THEN {}
    ELSE IF PairAt(i) THEN {i} \cup PairStartsFrom(i + 2)
    ELSE PairStartsFrom(i + 1)

SameFingerprints(i) ==
    Fingerprint(ContentIn(1, RecordPath(difflines[i])))
       = Fingerprint(ContentIn(2, RecordPath(difflines[i])))

\* pairs of one path whose deleted and created content are the same file content
IdenticalPairs ==
    {i \in PairStartsFrom(1) :
        IsFile(ContentIn(1, RecordPath(difflines[i]))) /\ SameFingerprints(i)}

\* the records that are no change: the pairs above and the Modified records
\* whose two fingerprints are equal
NoOps ==
    IdenticalPairs \cup {i + 1 : i \in IdenticalPairs}
       \cup {i \in 1..Len(difflines) : ModifiedAt(i) /\ SameFingerprints(i)}

\* out is the written form of line, with or without fingerprints appended
IsRecord(out, line) == out = Written(line) \/ StartsWith(out, Written(line) \o <<" ">>)

\* the records of lines occur in outs, in this order
RECURSIVE OccurInOrder(_, _)
OccurInOrder(lines, outs) ==
    IF lines = <<>> THEN TRUE
    ELSE IF outs = <<>> THEN FALSE
    ELSE IF IsRecord(Head(outs), Head(lines)) THEN OccurInOrder(Tail(lines), Tail(outs))
    ELSE OccurInOrder(lines, Tail(outs))

RECURSIVE Pick(_, _)
Pick(lines, keep) ==
    IF lines = <<>> THEN <<>>
    ELSE (IF Len(lines) \in keep THEN Pick(SubSeq(lines, 1, Len(lines) - 1), keep) \o <<lines[Len(lines)]>>
          ELSE Pick(SubSeq(lines, 1, Len(lines) - 1), keep))

\* C2: when the sorted input holds an adjacent Deleted/Created pair of one
\* path with identical content, both records of the pair are dropped, and
\* every other record that is not itself a no-op is in the output, in the
\* input's order.
C2_OnlyNoOpsDropped ==
    (Returned /\ IdenticalPairs # {}) =>
        /\ Len(result.lines) =< Len(difflines) - 2 * Cardinality(IdenticalPairs)
        /\ OccurInOrder(Pick(difflines, (1..Len(difflines)) \ NoOps), result.lines)

----------------------------------------------------------------------------
(* SpecMain: main over every list of volumes.                              *)

VolumeNames == {<<"v">>, <<"p", "/", "w">>}

MainKeys == {<<>>, <<(<<"z">>)>>, <<(<<"1">>), <<"1">>>>, <<(<<"a">>), <<"z">>>>,
             <<(<<"z">>), <<"a">>, <<"1">>>>}

\* the snapshots of a volume, oldest first, by their tags
MainTagLists == {<<(<<"a">>)>>, <<(<<"a">>), <<"z", "1">>>>, <<(<<"z", "1", "0">>), <<"z", "1">>>>}

\* what `zfs diff` prints for a volume; the second output has a line with
\* one field only
MainDiffs(volume) ==
    {<<DiffLine("+", Mountpoint(volume), <<"/", "b">>), DiffLine("M", Mountpoint(volume), <<"/", "a">>)>>,
     <<DiffLine("M", Mountpoint(volume), <<"/", "a">>), <<"M">>>>,
     <<DiffLine("-", Mountpoint(volume), <<"/", "b">>), DiffLine("+", Mountpoint(volume), <<"/", "b">>),
       RenameLine(Mountpoint(volume), <<"/", "a">>, <<"/", "b">>)>>}

MainLayout == [rel \in RelPaths |-> IF rel = <<"/", "b">> THEN <<"1", "1">> ELSE <<"1", "2">>]

InitMain ==
    /\ pc = "main"
    /\ volumes \in DistinctSeqs(VolumeNames, MaxVolumes) \ {<<>>}
    /\ snapshotkeys \in MainKeys
    /\ excludes \in {<<>>, <<(<<"R">>)>>}
    /\ args \in [filename : {<<>>, <<" ">>, <<"o">>}, reduce : BOOLEAN]
    /\ \E tags \in [Range(volumes) -> MainTagLists] :
          zfsList = [v \in Range(volumes) |->
                        [i \in 1..Len(tags[v]) |-> Snap(v, tags[v][i])]]
    /\ zfsDiff \in [Range(volumes) -> UNION {MainDiffs(v) : v \in Range(volumes)}]
    /\ \A v \in Range(volumes) : zfsDiff[v] \in MainDiffs(v)
    /\ fs = MainLayout
    /\ zfssnapshots = <<>>
    /\ snapshots = NoSnapshots
    /\ difflines = <<>>
    /\ stripVolumePath = FALSE
    /\ result = NoResult
    /\ current = 0
    /\ collecteddifflines = <<>>
    /\ errors = 0
    /\ reports = <<>>
    /\ summary = <<>>

\* "args check": too many snapshot keys, an unknown user, or no output
\* directory end main before the loop
MainRejectsArgs ==
    /\ pc = "main"
    /\ \E userExists, outdirIsDir \in BOOLEAN :
          Len(snapshotkeys) > 2 \/ ~userExists \/ ~outdirIsDir
    /\ pc' = "returned"
    /\ UNCHANGED <<zfssnapshots, snapshotkeys, snapshots, difflines, excludes,
                   stripVolumePath, fs, result>>
    /\ UNCHANGED mainVars

MainEntersLoop ==
    /\ pc = "main"
    /\ Len(snapshotkeys) =< 2
    /\ pc' = "loop"
    /\ UNCHANGED <<zfssnapshots, snapshotkeys, snapshots, difflines, excludes,
                   stripVolumePath, fs, result>>
    /\ UNCHANGED mainVars

\* what the calls of a volume's iteration return
Selected(volume) == getSnapshots(zfsList[volume], snapshotkeys)
Sorted(volume) == getSortedDiffLines(zfsDiff[volume])
Filtered(volume) == getFilteredDifflines(Sorted(volume).lines, excludes)
\* False if args.filename and len(volumes) > 1 else True
StripVolumePath == ~(Len(args.filename) > 0 /\ Len(volumes) > 1)
Reduced(volume) ==
    getReducedDifflines(
        FileSystem(fs, <<SnapshotDir(Mountpoint(volume), Selected(volume).snapshot1),
                         SnapshotDir(Mountpoint(volume), Selected(volume).snapshot2)>>),
        Filtered(volume), StripVolumePath, Mountpoint(volume),
        Selected(volume).snapshot1, Selected(volume).snapshot2)
Raises(volume) == Sorted(volume).raised \/ (args.reduce /\ Reduced(volume).raised)
ReportLines(volume) == IF args.reduce THEN Reduced(volume).lines ELSE Filtered(volume)

\* the loop's volume
Volume == volumes[current + 1]

Iterating == pc = "loop" /\ current < Len(volumes)

\* if not getSnapshotsSuccess: errors += 1; continue
IterateNotEnoughSnapshots ==
    /\ Iterating
    /\ ~Selected(Volume).enoughSnapshots
    /\ errors' = errors + 1
    /\ current' = current + 1
    /\ zfssnapshots' = zfsList[Volume]
    /\ snapshots' = Selected(Volume)
    /\ UNCHANGED <<pc, snapshotkeys, difflines, excludes, stripVolumePath, fs, result,
                   volumes, args, zfsList, zfsDiff, collecteddifflines, reports, summary>>

\* an IndexError leaves main: nothing in main catches it
IterateRaises ==
    /\ Iterating
    /\ Selected(Volume).enoughSnapshots
    /\ Raises(Volume)
    /\ pc' = "raised"
    /\ current' = current + 1
    /\ zfssnapshots' = zfsList[Volume]
    /\ snapshots' = Selected(Volume)
    /\ UNCHANGED <<snapshotkeys, difflines, excludes, stripVolumePath, fs, result,
                   volumes, args, zfsList, zfsDiff, collecteddifflines, errors,
                   reports, summary>>

\* the name of a volume's own report
OutFile(volume, keys, sel) ==
    ReplaceChar(volume, "/", "_") \o <<"_">> \o RSplit1(sel.snapshot1, <<"@">>)[2] \o <<"-">>
       \o (IF Len(keys) = 1 THEN RSplit1(sel.snapshot2, keys[1])[2]
           ELSE RSplit1(sel.snapshot2, <<"@">>)[2])

WrittenReports(volume, lines, collected) ==
    IF Len(args.filename) > 0
    THEN IF volume = volumes[Len(volumes)]
         THEN IF args.filename = <<" ">>
              THEN <<[volume |-> volume, stdout |-> TRUE, outfile |-> <<>>, lines |-> collected]>>
              ELSE <<[volume |-> volume, stdout |-> FALSE, outfile |-> args.filename,
                      lines |-> collected]>>
         ELSE <<>>
    ELSE <<[volume |-> volume, stdout |-> FALSE,
            outfile |-> OutFile(volume, snapshotkeys, Selected(volume)), lines |-> lines]>>

\* the rest of the loop body: sort, filter, reduce, collect, report
IterateReports ==
    /\ Iterating
    /\ Selected(Volume).enoughSnapshots
    /\ ~Raises(Volume)
    /\ LET lines == ReportLines(Volume)
       IN  /\ difflines' = lines
           /\ collecteddifflines' = collecteddifflines \o lines
           /\ reports' = reports \o WrittenReports(Volume, lines, collecteddifflines \o lines)
    /\ stripVolumePath' = IF args.reduce THEN StripVolumePath ELSE stripVolumePath
    /\ current' = current + 1
    /\ zfssnapshots' = zfsList[Volume]
    /\ snapshots' = Selected(Volume)
    /\ UNCHANGED <<pc, snapshotkeys, excludes, fs, result, volumes, args, zfsList,
                   zfsDiff, errors, summary>>

\* after the loop: "Success", or "{}/{} volumes were reported"
MainEnds ==
    /\ pc = "loop"
    /\ current = Len(volumes)
    /\ summary' = [warning |-> errors # 0, reported |-> Len(volumes) - errors,
                   of |-> Len(volumes)]
    /\ pc' = "done"
    /\ UNCHANGED <<zfssnapshots, snapshotkeys, snapshots, difflines, excludes,
                   stripVolumePath, fs, result, volumes, args, zfsList, zfsDiff,
                   current, collecteddifflines, errors, reports>>

NextMain ==
    \/ MainRejectsArgs
    \/ MainEntersLoop
    \/ IterateNotEnoughSnapshots
    \/ IterateRaises
    \/ IterateReports
    \/ MainEnds

SpecMain == InitMain /\ [][NextMain]_vars

\* fewer than two qualifying snapshots, by the rules of the three keyword modes
InsufficientSnapshots(list, keys) ==
    IF Len(keys) = 0 THEN Len(list) < 2
    ELSE IF Len(keys) = 1 THEN Cardinality(Matching(list, keys[1])) < 2
    ELSE \/ Matching(list, keys[1]) = {}
         \/ Matching(list, keys[2]) \ {Latest(Matching(list, keys[1]))} = {}

InLoop == pc \in {"loop", "done", "raised"}
Iterated == 1..current

\* C6: getSnapshots fails exactly when fewer than two qualifying snapshots
\* exist; main goes on to the next volume after such a failure, the error
\* count is the number of volumes that failed, and the summary reports
\* (N - errors) of N volumes.
C6_FailurePerVolume ==
    /\ InLoop =>
          \A k \in Iterated :
              LET r == getSnapshots(zfsList[volumes[k]], snapshotkeys)
              IN  ~r.enoughSnapshots <=> InsufficientSnapshots(zfsList[volumes[k]], snapshotkeys)
    /\ InLoop =>
          errors = Cardinality({k \in Iterated :
                                  InsufficientSnapshots(zfsList[volumes[k]], snapshotkeys)})
    /\ pc = "raised" => ~InsufficientSnapshots(zfsList[volumes[current]], snapshotkeys)
    /\ pc = "done" =>
          /\ current = Len(volumes)
          /\ summary = [warning |-> errors # 0, reported |-> Len(volumes) - errors,
                        of |-> Len(volumes)]

\* what main does with getSnapshots' own verdict: the loop goes on after a
\* failing volume and the summary counts the failed volumes
MainCountsFailures ==
    /\ InLoop =>
          errors = Cardinality({k \in Iterated : ~Selected(volumes[k]).enoughSnapshots})
    /\ pc = "raised" => Selected(volumes[current]).enoughSnapshots
    /\ pc = "done" =>
          /\ current = Len(volumes)
          /\ summary.reported = Len(volumes) - errors /\ summary.of = Len(volumes)

Succeeded == {k \in 1..Len(volumes) : Selected(volumes[k]).enoughSnapshots}

RECURSIVE CollectedOf(_)
CollectedOf(n) ==
    IF n = 0 THEN <<>>
    ELSE CollectedOf(n - 1) \o (IF n \in Succeeded THEN ReportLines(volumes[n]) ELSE <<>>)

\* C8: with a combined report file name (or the stdout form), once main has
\* iterated over all volumes the combined report has been written exactly
\* once and holds the diff lines of every volume whose snapshot selection
\* succeeded, whichever volumes failed. (Checked for runs in which some
\* volume's selection succeeded.)
C8_CombinedReportWritten ==
    (pc = "done" /\ Len(args.filename) > 0 /\ Succeeded # {}) =>
        /\ Len(reports) = 1
        /\ reports[1].lines = CollectedOf(Len(volumes))

\* the combined report when the last volume iterated is a succeeding one
C8_LastVolumeSucceeds ==
    (pc = "done" /\ Len(args.filename) > 0 /\ Len(volumes) \in Succeeded) =>
        /\ Len(reports) = 1
        /\ reports[1].lines = CollectedOf(Len(volumes))

Malformed(volume) == \E i \in 1..Len(zfsDiff[volume]) : Len(SplitWs(zfsDiff[volume][i])) < 2

ReportedOn(k) ==
    IF Len(args.filename) > 0 THEN reports # <<>>
    ELSE \E j \in 1..Len(reports) : reports[j].volume = volumes[k]

\* C10: a diff line without a second field makes getSortedDiffLines fail,
\* and the failure ends the comparison of its volume only: no report is
\* written for that volume, and the volumes after it are still processed
\* and reported.
C10_MalformedAbortsOneVolume ==
    pc \in {"done", "raised"} =>
        \A k \in 1..Len(volumes) :
            (k \in Succeeded /\ Malformed(volumes[k])) =>
                /\ Sorted(volumes[k]).raised
                /\ \A j \in 1..Len(reports) : reports[j].volume # volumes[k]
                /\ \A m \in (k + 1)..Len(volumes) :
                      (m \in Succeeded /\ ~Malformed(volumes[m])) => ReportedOn(m)

----------------------------------------------------------------------------
(* The program as a whole: main, and each function called on its own.      *)

Init == InitSnapshots \/ InitFilter \/ InitReduce \/ InitMain

Next ==
    \/ CallGetSnapshots
    \/ CallGetFilteredDifflines
    \/ CallGetReducedDifflines
    \/ MainRejectsArgs
    \/ MainEntersLoop
    \/ IterateNotEnoughSnapshots
    \/ IterateRaises
    \/ IterateReports
    \/ MainEnds

Spec == Init /\ [][Next]_vars

====
